---- MODULE Spec2Model ----
(***************************************************************************)
(* A model of mev-cfg: the per-contract CFG runner (cfg_gen/cfg_graph.rs), *)
(* the trace aligner (cfg_gen/trace.rs) and the transaction analyzer       *)
(* (analyzer.rs).  The disassembler, the opcode table and the symbolic     *)
(* stack solver are not among the source files; they are modelled from     *)
(* the specification (sections 3, 4.1, 4.2 and 4.4).                       *)
(***************************************************************************)
EXTENDS Integers, Sequences, FiniteSets, TLC

\* Option::None of an optional number (pc, push value, address).
None == -1

\* A stack element the static analysis knows nothing about.
Opaque == -2

\* Opcode bytes.
STOP == 0
SSTORE == 85
JUMP == 86
JUMPI == 87
JUMPDEST == 91
PUSH1 == 96
PUSH32 == 127

\* u16 arithmetic wraps at 2^16.
PcModulus == 65536

Min(a, b) == IF a < b THEN a ELSE b

Range(s) == {s[i] : i \in DOMAIN s}

(***************************************************************************)
(* Opcode table (specification section 3).                                 *)
(***************************************************************************)
BLOCK_ENDERS_U8 == {STOP, JUMP, JUMPI, 243, 253, 254, 255}

KnownOpcodes ==
    (0..11) \cup (16..29) \cup {32} \cup (48..74) \cup (80..95) \cup (96..127)
        \cup (128..143) \cup (144..159) \cup (160..164)
        \cup {240, 241, 242, 243, 244, 245, 250, 253, 254, 255}

\* opcode(b).name != "unknown"
IsKnownOpcode(b) == b \in KnownOpcodes

IsPush(b) == b >= PUSH1 /\ b <= PUSH32

ImmediateSize(b) == IF IsPush(b) THEN b - 95 ELSE 0

StackIn(b) ==
    CASE b \in {STOP, JUMPDEST} -> 0
      [] b \in 1..7 -> 2
      [] b \in {8, 9} -> 3
      [] b \in {10, 11} -> 2
      [] b = 80 -> 1
      [] b = SSTORE -> 2
      [] b = JUMP -> 1
      [] b = JUMPI -> 2
      [] b \in {241, 242} -> 7
      [] b \in {244, 250} -> 6
      [] OTHER -> 0

StackOut(b) ==
    CASE b \in 1..11 -> 1
      [] b \in {241, 242, 244, 250} -> 1
      [] OTHER -> 0

(***************************************************************************)
(* Disassembler (specification section 4.1).  An instruction is            *)
(* (pc, opcode, push value); last_byte is the pc of its last immediate     *)
(* byte, from which a block's end_pc is taken.                             *)
(***************************************************************************)
RECURSIVE ImmediateValue(_, _, _)
ImmediateValue(code, from, to) ==
    IF from > to THEN 0
    ELSE ImmediateValue(code, from, to - 1) * 256 + code[to]

\* the instruction that starts at byte i of code
InstructionAt(code, i) ==
    LET n == ImmediateSize(code[i])
        last == Min(i + n, Len(code))
    IN  [pc |-> i - 1,
         op |-> code[i],
         push |-> IF n > 0 THEN ImmediateValue(code, i + 1, last) ELSE None,
         last_byte |-> last - 1,
         truncated |-> i + n > Len(code)]

RECURSIVE InstructionsFrom(_, _, _, _)
\* the linear sweep over bytes lo..hi: acc holds the instructions so far and
\* the byte at which the next one starts (the bytes before it are immediates)
InstructionsFrom(code, acc, lo, hi) ==
    IF lo > hi THEN acc
    ELSE IF lo = hi
      THEN IF lo # acc.next THEN acc
           ELSE [ins |-> Append(acc.ins, InstructionAt(code, lo)),
                 next |-> lo + ImmediateSize(code[lo]) + 1]
    ELSE LET mid == (lo + hi) \div 2
             left == InstructionsFrom(code, acc, lo, mid)
         IN  IF left.next > hi THEN left
             ELSE InstructionsFrom(code, left, mid + 1, hi)

Instructions(code) ==
    InstructionsFrom(code, [ins |-> <<>>, next |-> 1], 1, Len(code)).ins

\* A JUMPDEST byte is valid iff it is not inside a PUSH immediate.
JumpTable(code) == {x.pc : x \in {y \in Range(Instructions(code)) : y.op = JUMPDEST}}

IsBlockEnder(x) == x.op \in BLOCK_ENDERS_U8 \/ ~IsKnownOpcode(x.op) \/ x.truncated

(***************************************************************************)
(* Stack-info analyzer (specification section 4.2).                        *)
(***************************************************************************)
PopN(st, n) == IF Len(st) >= n THEN SubSeq(st, 1, Len(st) - n) ELSE <<>>

ApplyOp(st, x) ==
    IF IsPush(x.op) THEN Append(st, x.push)
    ELSE PopN(st, StackIn(x.op)) \o [k \in 1..StackOut(x.op) |-> Opaque]

RECURSIVE RunOpsIn(_, _, _, _)
\* the stack after ops[lo..hi], started from st (the halves are evaluated in
\* order: the test on left computes the first before the second is entered)
RunOpsIn(st, ops, lo, hi) ==
    IF lo > hi THEN st
    ELSE IF lo = hi THEN ApplyOp(st, ops[lo])
    ELSE LET mid == (lo + hi) \div 2
             left == RunOpsIn(st, ops, lo, mid)
         IN  IF Len(left) >= 0 THEN RunOpsIn(left, ops, mid + 1, hi) ELSE left

\* the stack after ops[1..upto], started from st
RunOps(st, ops, upto) == RunOpsIn(st, ops, 1, upto)

Top(st) == IF st = <<>> THEN Opaque ELSE st[Len(st)]

EndsInJump(ops) == ops[Len(ops)].op \in {JUMP, JUMPI}

analyze_stack_info(ops) ==
    LET t == Top(RunOps(<<>>, ops, Len(ops) - 1))
    IN  [push_used_for_jump |-> IF EndsInJump(ops) /\ t # Opaque THEN t ELSE None,
         indirect_jump |-> EndsInJump(ops) /\ t = Opaque]

MakeBlock(ops) ==
    LET info == analyze_stack_info(ops)
    IN  [start_pc |-> ops[1].pc,
         end_pc |-> ops[Len(ops)].last_byte,
         ops |-> ops,
         push_used_for_jump |-> info.push_used_for_jump,
         indirect_jump |-> info.indirect_jump]

\* one instruction of the split into blocks: acc holds the finished blocks
\* and the instructions of the open block
SplitAt(acc, x) ==
    IF x.op = JUMPDEST /\ acc.cur # <<>>
      THEN [blocks |-> Append(acc.blocks, MakeBlock(acc.cur)), cur |-> <<x>>]
    ELSE IF IsBlockEnder(x)
      THEN [blocks |-> Append(acc.blocks, MakeBlock(Append(acc.cur, x))), cur |-> <<>>]
    ELSE [blocks |-> acc.blocks, cur |-> Append(acc.cur, x)]

RECURSIVE BlocksFrom(_, _, _, _)
\* the split over instructions lo..hi
BlocksFrom(ins, acc, lo, hi) ==
    IF lo > hi THEN acc
    ELSE IF lo = hi THEN SplitAt(acc, ins[lo])
    ELSE LET mid == (lo + hi) \div 2
             left == BlocksFrom(ins, acc, lo, mid)
         IN  IF Len(left.cur) >= 0 THEN BlocksFrom(ins, left, mid + 1, hi) ELSE left

\* dasm::disassemble followed by analyze_stack_info on every block; the
\* sequence is in start_pc order, as the BTreeMap keyed by (start_pc, end_pc).
disassemble(code) ==
    LET ins == Instructions(code)
        split == BlocksFrom(ins, [blocks |-> <<>>, cur |-> <<>>], 1, Len(ins))
    IN  IF split.cur = <<>> THEN split.blocks
        ELSE Append(split.blocks, MakeBlock(split.cur))

NodeOf(b) == <<b.start_pc, b.end_pc>>

BlockAt(blocks, node) == CHOOSE b \in Range(blocks) : NodeOf(b) = node

LastOp(b) == b.ops[Len(b.ops)].op

(***************************************************************************)
(* CFGRunner (cfg_gen/cfg_graph.rs).  cfg_dag is a petgraph GraphMap: a    *)
(* set of nodes (start_pc, end_pc) and at most one labelled edge per       *)
(* ordered pair of nodes.                                                  *)
(***************************************************************************)
EdgeJump == "Jump"
EdgeConditionTrue == "ConditionTrue"
EdgeConditionFalse == "ConditionFalse"
EdgeSymbolicJump == "SymbolicJump"
Edges == {EdgeJump, EdgeConditionTrue, EdgeConditionFalse, EdgeSymbolicJump}

EmptyDag == [nodes |-> {}, edges |-> {}]

\* GraphMap::add_edge: inserts missing endpoints; an existing a -> b edge
\* has its label replaced.
add_edge(dag, a, b, kind) ==
    [nodes |-> dag.nodes \cup {a, b},
     edges |-> {e \in dag.edges : ~(e.from = a /\ e.to = b)}
                 \cup {[from |-> a, to |-> b, kind |-> kind]}]

\* GraphMap::remove_node: the node goes with every edge that touches it.
remove_node(dag, n) ==
    [nodes |-> dag.nodes \ {n},
     edges |-> {e \in dag.edges : e.from # n /\ e.to # n}]

\* CFGRunner::new: one node per instruction block, no edge.
CFGRunnerNew(blocks) == [nodes |-> {NodeOf(b) : b \in Range(blocks)}, edges |-> {}]

\* The node whose ops hold an instruction at pc; NoNode stands for the panic.
NoNode == <<None, None>>

get_node_from_pc(blocks, pc) ==
    LET hit == {b \in Range(blocks) : \E k \in DOMAIN b.ops : b.ops[k].pc = pc}
    IN  IF hit = {} THEN NoNode ELSE NodeOf(CHOOSE b \in hit : TRUE)

last_pc_total(blocks) ==
    CHOOSE m \in {b.end_pc : b \in Range(blocks)} :
        \A b \in Range(blocks) : b.end_pc <= m

\* The build profile: with overflow checks (debug) a u16 addition that
\* overflows panics, without them (release) it wraps.
VARIABLE overflow_checks

\* end_pc + 1 in u16; None stands for the overflow panic.
NextPc(end_pc) ==
    IF end_pc + 1 < PcModulus THEN end_pc + 1
    ELSE IF overflow_checks THEN None
    ELSE (end_pc + 1) % PcModulus

\* r is [ok, dag]; a panic (overflow, unknown pc, unparsable push value)
\* clears ok.
Panic(r) == [ok |-> FALSE, dag |-> r.dag]

ConnectTo(r, blocks, from, pc, kind) ==
    IF ~r.ok THEN r
    ELSE LET next_node == get_node_from_pc(blocks, pc)
         IN  IF pc >= PcModulus \/ next_node = NoNode
               THEN [ok |-> FALSE, dag |-> r.dag]
               ELSE [ok |-> TRUE, dag |-> add_edge(r.dag, from, next_node, kind)]

\* Case 1: Jumpi false.
ConnectJumpiFalse(r, blocks, b) ==
    LET next_pc == NextPc(b.end_pc)
    IN  IF LastOp(b) # JUMPI \/ ~r.ok THEN r
        ELSE IF next_pc = None THEN Panic(r)
        ELSE IF ~(next_pc >= last_pc_total(blocks))
          THEN ConnectTo(r, blocks, NodeOf(b), next_pc, EdgeConditionFalse)
          ELSE r

\* Cases 2 and 3: direct Jumpi true, direct Jump.
ConnectDirect(r, blocks, b) ==
    IF ~b.indirect_jump /\ b.push_used_for_jump # None
      THEN LET r2 == IF LastOp(b) = JUMPI
                       THEN ConnectTo(r, blocks, NodeOf(b), b.push_used_for_jump,
                                      EdgeConditionTrue)
                       ELSE r
           IN  IF LastOp(b) = JUMP
                 THEN ConnectTo(r2, blocks, NodeOf(b), b.push_used_for_jump, EdgeJump)
                 ELSE r2
      ELSE r

\* A case 4 that connects every block to the next pc, whatever its last op.
ConnectNext(r, blocks, b) ==
    LET next_pc == NextPc(b.end_pc)
    IN  IF ~r.ok THEN r
        ELSE IF next_pc = None THEN Panic(r)
        ELSE IF ~(next_pc >= last_pc_total(blocks))
          THEN ConnectTo(r, blocks, NodeOf(b), next_pc, EdgeJump)
          ELSE r

\* Case 4: the block ender is a basic instruction (connect to next pc).
ConnectFallThrough(r, blocks, b) ==
    LET next_pc == NextPc(b.end_pc)
    IN  IF ~(LastOp(b) \notin BLOCK_ENDERS_U8 /\ IsKnownOpcode(LastOp(b))) \/ ~r.ok
          THEN r
        ELSE IF next_pc = None THEN Panic(r)
        ELSE IF ~(next_pc >= last_pc_total(blocks))
          THEN ConnectTo(r, blocks, NodeOf(b), next_pc, EdgeJump)
          ELSE r

ConnectBlock(r, blocks, b) ==
    ConnectFallThrough(ConnectDirect(ConnectJumpiFalse(r, blocks, b), blocks, b), blocks, b)

RECURSIVE ConnectBlocks(_, _, _)
ConnectBlocks(r, blocks, upto) ==
    IF upto = 0 THEN r
    ELSE ConnectBlock(ConnectBlocks(r, blocks, upto - 1), blocks, blocks[upto])

\* form_basic_connections; blocks = <<>> is the unwrap of max() on no block.
form_basic_connections(blocks, dag) ==
    IF blocks = <<>> THEN [ok |-> FALSE, dag |-> dag]
    ELSE ConnectBlocks([ok |-> TRUE, dag |-> dag], blocks, Len(blocks))

Incoming(dag, n) == {e \in dag.edges : e.to = n}

ToRemove(blocks, dag) ==
    {NodeOf(b) : b \in {c \in Range(blocks) :
        /\ Incoming(dag, NodeOf(c)) = {}
        /\ c.ops[1].op # JUMPDEST
        /\ c.start_pc # 0}}

\* A pruning that judges each block on the graph left by the removals
\* made so far, in pc order.
RECURSIVE RemoveInTurn(_, _, _)
RemoveInTurn(blocks, dag, k) ==
    IF k > Len(blocks) THEN dag
    ELSE RemoveInTurn(blocks,
                      IF NodeOf(blocks[k]) \in ToRemove(blocks, dag)
                        THEN remove_node(dag, NodeOf(blocks[k]))
                        ELSE dag,
                      k + 1)

remove_in_turn(blocks, dag) == RemoveInTurn(blocks, dag, 1)

remove_unreachable_instruction_blocks(blocks, dag) ==
    LET to_remove == ToRemove(blocks, dag)
    IN  [nodes |-> dag.nodes \ to_remove,
         edges |-> {e \in dag.edges : e.from \notin to_remove /\ e.to \notin to_remove}]

(***************************************************************************)
(* Symbolic stack solver (specification section 4.4): a worklist of        *)
(* (block, entry stack) pairs, propagated over the known edges; an         *)
(* indirect jump whose target evaluates to a valid jumpdest gets a         *)
(* SymbolicJump edge.  The order in which the worklist is popped is left   *)
(* open by the specification and is a nondeterministic choice here.        *)
(***************************************************************************)
CapFactor == 8

IterationCap(blocks) == CapFactor * Len(blocks)

EntryNodes(blocks) == {NodeOf(b) : b \in {c \in Range(blocks) : c.start_pc = 0}}

SolverInit(blocks, dag) ==
    LET start == {<<n, <<>>>> : n \in EntryNodes(blocks) \cap dag.nodes}
    IN  [dag |-> dag, entries |-> start, work |-> start]

\* The blocks that start at pc t.
StartingAt(blocks, t) == {NodeOf(b) : b \in {c \in Range(blocks) : c.start_pc = t}}

HasEdge(dag, a, b) == \E e \in dag.edges : e.from = a /\ e.to = b

\* The graph after the indirect jump of block b is evaluated on entry stack st.
ResolveIndirect(blocks, dag, jumpdests, b, st) ==
    LET t == Top(RunOps(st, b.ops, Len(b.ops) - 1))
        target == StartingAt(blocks, t)
    IN  IF b.indirect_jump /\ t # Opaque /\ t \in jumpdests /\ target # {}
          THEN LET to == CHOOSE n \in target : TRUE
               IN  IF HasEdge(dag, NodeOf(b), to) THEN dag
                   ELSE add_edge(dag, NodeOf(b), to, EdgeSymbolicJump)
          ELSE dag

\* An iteration that does not follow the edge it has just added.
SolverStepStaleEdges(blocks, jumpdests, s, item) ==
    LET b == BlockAt(blocks, item[1])
        dag2 == ResolveIndirect(blocks, s.dag, jumpdests, b, item[2])
        exit == RunOps(item[2], b.ops, Len(b.ops))
        succ == {<<e.to, exit>> : e \in {f \in s.dag.edges : f.from = item[1]}}
        new == succ \ s.entries
    IN  [dag |-> dag2,
         entries |-> s.entries \cup new,
         work |-> (s.work \ {item}) \cup new]

\* One iteration: pop item = (node, entry stack), resolve, propagate.
SolverStep(blocks, jumpdests, s, item) ==
    LET b == BlockAt(blocks, item[1])
        dag2 == ResolveIndirect(blocks, s.dag, jumpdests, b, item[2])
        exit == RunOps(item[2], b.ops, Len(b.ops))
        succ == {<<e.to, exit>> : e \in {f \in dag2.edges : f.from = item[1]}}
        new == succ \ s.entries
    IN  [dag |-> dag2,
         entries |-> s.entries \cup new,
         work |-> (s.work \ {item}) \cup new]

SolverSteps(blocks, jumpdests, s) ==
    IF s.work = {} THEN {s}
    ELSE {SolverStep(blocks, jumpdests, s, item) : item \in s.work}

RECURSIVE SolverRun(_, _, _, _)
\* every solver state that k further iterations can end in
SolverRun(blocks, jumpdests, S, k) ==
    IF k = 0 \/ \A s \in S : s.work = {} THEN S
    ELSE SolverRun(blocks, jumpdests,
                   UNION {SolverSteps(blocks, jumpdests, s) : s \in S}, k - 1)

\* stack_solve::symbolic_cycle: the graphs a run can leave, each with
\* whether the run reached its fixed point or stopped at the cap.
symbolic_cycle(blocks, dag, jumpdests) ==
    {[dag |-> s.dag, complete |-> s.work = {}] :
        s \in SolverRun(blocks, jumpdests, {SolverInit(blocks, dag)},
                        IterationCap(blocks))}

(***************************************************************************)
(* Trace aligner (cfg_gen/trace.rs).  A step is [pc, op, address, depth,   *)
(* stack]; an observed address is a well-formed 20-byte address, written   *)
(* "A" or "B", or is absent (NoAddress).                                   *)
(***************************************************************************)
Addresses == {"A", "B"}
NoAddress == "none"
AddressOrder == <<"A", "B">>

CallOps == {"CALL", "DELEGATECALL", "STATICCALL", "CALLCODE"}

get_h160_address(step) == step.address

is_contract_call(step) == step.op \in CallOps

get_call_type(step) == step.op

\* the callee of a call step, read from its stack
get_call_target(step) ==
    IF ~is_contract_call(step) THEN NoAddress
    ELSE LET stack_pos == 1
         IN  IF Len(step.stack) > stack_pos
               THEN step.stack[Len(step.stack) - stack_pos]
               ELSE NoAddress

extract_contract_addresses(steps) ==
    {get_h160_address(s) : s \in Range(steps)} \ {NoAddress}

CallEdgeAt(steps, i) ==
    LET current_step == steps[i]
        next_step == steps[i + 1]
    IN  IF /\ is_contract_call(current_step)
           /\ get_h160_address(current_step) # NoAddress
           /\ current_step.pc # None
           /\ get_h160_address(next_step) # NoAddress
          THEN <<[from_addr |-> get_h160_address(current_step),
                  from_pc |-> current_step.pc,
                  to_addr |-> get_h160_address(next_step),
                  call_type |-> get_call_type(current_step)]>>
          ELSE <<>>

RECURSIVE CallEdgesUpTo(_, _)
CallEdgesUpTo(steps, n) ==
    IF n = 0 THEN <<>> ELSE CallEdgesUpTo(steps, n - 1) \o CallEdgeAt(steps, n)

\* extract_call_edges; steps.len() - 1 underflows on an empty trace and the
\* function panics (ok = FALSE): at the subtraction under overflow checks,
\* and otherwise at steps[0], which the loop then reads.
extract_call_edges(steps) ==
    IF Len(steps) = 0 THEN [ok |-> FALSE, edges |-> <<>>]
    ELSE [ok |-> TRUE, edges |-> CallEdgesUpTo(steps, Len(steps) - 1)]

\* A filter that keeps every step that carries an address.
filter_steps_with_address(steps, address) ==
    LET HasAddress(step) == get_h160_address(step) # NoAddress
    IN  SelectSeq(steps, HasAddress)

filter_steps_by_address(steps, address) ==
    LET Same(step) == get_h160_address(step) # NoAddress
                        /\ get_h160_address(step) = address
    IN  SelectSeq(steps, Same)

get_executed_pcs(steps) == {s.pc : s \in Range(steps)} \ {None}

(***************************************************************************)
(* Transaction analyzer (analyzer.rs, blockchain.rs).                      *)
(***************************************************************************)
RECURSIVE SetToSeq(_)
\* some enumeration of a finite set (the iteration order of a hash map)
SetToSeq(S) ==
    IF S = {} THEN <<>>
    ELSE LET x == CHOOSE y \in S : TRUE IN <<x>> \o SetToSeq(S \ {x})

\* BytecodeCache::new
EmptyCache == [x \in {} |-> x]

\* BytecodeCache::insert
CacheInsert(cache, address, code) ==
    [a \in DOMAIN cache \cup {address} |-> IF a = address THEN code ELSE cache[a]]

RECURSIVE FetchEach(_, _, _)
\* the loop of fetch_all_bytecodes over the addresses left: get_code answers
\* [ok, code]; an error returns at once (the ? operator), and only non-empty
\* code is saved.
FetchEach(addresses, code_at, cache) ==
    IF addresses = <<>> THEN [ok |-> TRUE, cache |-> cache]
    ELSE LET address == Head(addresses)
             got == code_at[address]
         IN  IF ~got.ok THEN [ok |-> FALSE, cache |-> EmptyCache]
             ELSE FetchEach(Tail(addresses), code_at,
                            IF got.code # <<>>
                              THEN CacheInsert(cache, address, got.code)
                              ELSE cache)

\* A relaxed fetch: a failed get_code is skipped and the rest is returned.
fetch_all_bytecodes_relaxed(addresses, code_at) ==
    [ok |-> TRUE,
     cache |-> [a \in {x \in Range(addresses) : code_at[x].ok /\ code_at[x].code # <<>>}
                   |-> code_at[a].code]]

\* A fetch that saves the empty code of an account without code as well.
fetch_all_bytecodes_keep_empty(addresses, code_at) ==
    IF \E x \in Range(addresses) : ~code_at[x].ok
      THEN [ok |-> FALSE, cache |-> EmptyCache]
      ELSE [ok |-> TRUE, cache |-> [x \in Range(addresses) |-> code_at[x].code]]

\* fetch_all_bytecodes: Ok(cache) or Err (ok = FALSE, no cache)
fetch_all_bytecodes(addresses, code_at) == FetchEach(addresses, code_at, EmptyCache)

\* the code of an account that delegates (EIP-7702): 0xef0100 and an address
IsDelegation(code) == Len(code) = 23 /\ SubSeq(code, 1, 3) = <<239, 1, 0>>

\* lines 114-115: revm has a legacy jump table for legacy bytecode only; for
\* any other kind (here a delegation designator) legacy_jump_table() is None
\* and the generation returns the error.
legacy_jump_table(code) ==
    IF IsDelegation(code) THEN [some |-> FALSE, table |-> {}]
    ELSE [some |-> TRUE, table |-> JumpTable(code)]

\* lines 117-126: the pcs of the bits set in the jump table, cast to u16.
set_all_valid_jumpdests(code) ==
    {i % PcModulus : i \in legacy_jump_table(code).table}

\* the stages of a CFG generation so far, oldest first: the method called
\* and cfg_dag before the call
Stage(stages, method, dag) == Append(stages, [call |-> method, before |-> dag])

\* A CFG generation that resolves the indirect jumps before it prunes.
generate_solve_then_prune(steps, address, code) ==
    LET blocks == disassemble(code)
        executed_pcs == get_executed_pcs(filter_steps_by_address(steps, address))
        formed == form_basic_connections(blocks, CFGRunnerNew(blocks))
        s1 == Stage(<<>>, "form_basic_connections", CFGRunnerNew(blocks))
        s2 == Stage(s1, "symbolic_cycle", formed.dag)
    IN  IF ~legacy_jump_table(code).some
          THEN {[ok |-> FALSE, err |-> TRUE, address |-> address, blocks |-> <<>>,
                 cfg_dag |-> CFGRunnerNew(<<>>), executed_pcs |-> {}, stages |-> <<>>]}
        ELSE IF ~formed.ok
          THEN {[ok |-> FALSE, err |-> FALSE, address |-> address, blocks |-> blocks,
                 cfg_dag |-> formed.dag, executed_pcs |-> executed_pcs, stages |-> s1]}
          ELSE {[ok |-> TRUE, err |-> FALSE, address |-> address, blocks |-> blocks,
                 cfg_dag |-> remove_unreachable_instruction_blocks(blocks, out.dag),
                 executed_pcs |-> executed_pcs,
                 stages |-> Stage(s2, "remove_unreachable_instruction_blocks", out.dag)] :
                    out \in symbolic_cycle(blocks, formed.dag, set_all_valid_jumpdests(code))}

\* generate_single_contract_cfg: every ContractCFG the call can return
\* (ok = FALSE: the call returned the error of the bytecode analysis, err, or
\* panicked in form_basic_connections).
generate_single_contract_cfg(steps, address, code) ==
    LET blocks == disassemble(code)
        executed_pcs == get_executed_pcs(filter_steps_by_address(steps, address))
        formed == form_basic_connections(blocks, CFGRunnerNew(blocks))
        pruned == remove_unreachable_instruction_blocks(blocks, formed.dag)
        s1 == Stage(<<>>, "form_basic_connections", CFGRunnerNew(blocks))
        s2 == Stage(s1, "remove_unreachable_instruction_blocks", formed.dag)
        s3 == Stage(s2, "symbolic_cycle", pruned)
    IN  IF ~legacy_jump_table(code).some
          THEN {[ok |-> FALSE, err |-> TRUE, address |-> address, blocks |-> <<>>,
                 cfg_dag |-> CFGRunnerNew(<<>>), executed_pcs |-> {}, stages |-> <<>>]}
        ELSE IF ~formed.ok
          THEN {[ok |-> FALSE, err |-> FALSE, address |-> address, blocks |-> blocks,
                 cfg_dag |-> formed.dag, executed_pcs |-> executed_pcs, stages |-> s1]}
          ELSE {[ok |-> TRUE, err |-> FALSE, address |-> address, blocks |-> blocks,
                 cfg_dag |-> out.dag, executed_pcs |-> executed_pcs, stages |-> s3] :
                    out \in symbolic_cycle(blocks, pruned, set_all_valid_jumpdests(code))}

\* impl Debug for Edges
DebugEdges(kind) ==
    CASE kind = EdgeJump -> ""
      [] kind = EdgeConditionTrue -> "True"
      [] kind = EdgeConditionFalse -> "False"
      [] kind = EdgeSymbolicJump -> "Symbolic"

Internal(label) == [tag |-> "Internal", label |-> label]
External(label) == [tag |-> "External", label |-> label]

EmptyGraph == [nodes |-> <<>>, edges |-> <<>>]

\* A TransactionNode flagged by the first instruction of its block alone.
TransactionNodeFirstOp(address, block) ==
    [contract_address |-> address,
     pc |-> block.start_pc,
     instruction |-> [k \in DOMAIN block.ops |-> block.ops[k].op],
     contains_sstore |-> block.ops # <<>> /\ block.ops[1].op = SSTORE]

\* lines 184-192: the TransactionNode of an instruction block
TransactionNode(address, block) ==
    [contract_address |-> address,
     pc |-> block.start_pc,
     instruction |-> [k \in DOMAIN block.ops |-> block.ops[k].op],
     contains_sstore |-> \E k \in DOMAIN block.ops : block.ops[k].op = SSTORE]

\* lines 176-199: the executed nodes of every contract CFG, in some order
ExecutedNodes(cfgs) ==
    LET Of(a) == IF a \in DOMAIN cfgs
                   THEN SetToSeq({n \in cfgs[a].cfg_dag.nodes :
                                     n[1] \in cfgs[a].executed_pcs})
                   ELSE <<>>
        Tx(a) == [k \in DOMAIN Of(a) |->
                     TransactionNode(a, BlockAt(cfgs[a].blocks, Of(a)[k]))]
    IN  Tx(AddressOrder[1]) \o Tx(AddressOrder[2])

\* A node mapping that tells the nodes of a contract apart by address only:
\* every key of a contract leads to the last node of that contract.
NodeMappingByAddress(nodes) ==
    [key \in {<<nodes[k].contract_address, nodes[k].pc>> : k \in DOMAIN nodes} |->
        CHOOSE k \in DOMAIN nodes :
            /\ nodes[k].contract_address = key[1]
            /\ \A j \in DOMAIN nodes : nodes[j].contract_address = key[1] => j <= k]

\* node_mapping after the nodes are added: (address, pc) -> node index
NodeMapping(nodes) ==
    [key \in {<<nodes[k].contract_address, nodes[k].pc>> : k \in DOMAIN nodes} |->
        CHOOSE k \in DOMAIN nodes :
            /\ <<nodes[k].contract_address, nodes[k].pc>> = key
            /\ \A j \in DOMAIN nodes :
                 <<nodes[j].contract_address, nodes[j].pc>> = key => j <= k]

\* lines 201-224: the internal edges
InternalEdges(cfgs, mapping) ==
    LET Of(a) == IF a \in DOMAIN cfgs
                   THEN SetToSeq({e \in cfgs[a].cfg_dag.edges :
                            /\ e.from[1] \in cfgs[a].executed_pcs
                            /\ e.to[1] \in cfgs[a].executed_pcs
                            /\ <<a, e.from[1]>> \in DOMAIN mapping
                            /\ <<a, e.to[1]>> \in DOMAIN mapping})
                   ELSE <<>>
        Tx(a) == [k \in DOMAIN Of(a) |->
                     [source |-> mapping[<<a, Of(a)[k].from[1]>>],
                      target |-> mapping[<<a, Of(a)[k].to[1]>>],
                      weight |-> Internal(DebugEdges(Of(a)[k].kind))]]
    IN  Tx(AddressOrder[1]) \o Tx(AddressOrder[2])

\* lines 226-240: the cross-contract call edges
ExternalEdges(edges, mapping) ==
    LET Has(k) == /\ <<edges[k].from_addr, edges[k].from_pc>> \in DOMAIN mapping
                  /\ <<edges[k].to_addr, 0>> \in DOMAIN mapping
        kept == SelectSeq([k \in DOMAIN edges |-> k], Has)
    IN  [j \in DOMAIN kept |->
            [source |-> mapping[<<edges[kept[j]].from_addr, edges[kept[j]].from_pc>>],
             target |-> mapping[<<edges[kept[j]].to_addr, 0>>],
             weight |-> External(edges[kept[j]].call_type)]]

\* lines 226-240: the number of dropped call edges the build keeps for a
\* report.  The loop has no else branch and the analyzer no field for a
\* count: nothing is kept.
dropped_edges_counted(edges, mapping) == None

\* lines 277-291: the style of an edge line, as the parts of its text
EdgeStyle(weight) ==
    IF weight.tag = "Internal"
      THEN CASE weight.label = "ConditionTrue" ->
                    <<"color=\"#9ece6a\", label=\"True\"">>
             [] weight.label = "ConditionFalse" ->
                    <<"color=\"#f7768e\", label=\"False\"">>
             [] weight.label = "SymbolicJump" ->
                    <<"color=\"#e0af68\", style=\"dotted\", label=\"Symbolic\"">>
             [] OTHER -> <<"color=\"#414868\"">>
      ELSE <<"color=\"#7aa2f7\", style=\"bold\", penwidth=2, label=\"",
             weight.label, "\"">>

\* export_global_graph_dot: the node lines and the edge lines
export_global_graph_dot(graph) ==
    [nodes |-> [k \in DOMAIN graph.nodes |->
                   [index |-> k,
                    label |-> <<graph.nodes[k].contract_address, graph.nodes[k].pc,
                                graph.nodes[k].instruction>>,
                    highlighted |-> graph.nodes[k].contains_sstore]],
     edges |-> [k \in DOMAIN graph.edges |->
                   [from |-> graph.edges[k].source,
                    to |-> graph.edges[k].target,
                    style |-> EdgeStyle(graph.edges[k].weight)]]]

(***************************************************************************)
(* Bounds and inputs.                                                      *)
(***************************************************************************)
\* longest trace
MaxTraceLen == 3
\* longest enumerated bytecode
MaxCodeLen == 4
\* most prune / solve calls on one CFGRunner
MaxCalls == 3

\* PUSH1 09, JUMPI | CALL, STATICCALL, SSTORE, PUSH1 00, JUMPI | JUMPDEST, STOP
ProgramA == <<96, 9, 87, 241, 250, 85, 96, 0, 87, 91, 0>>
\* JUMPDEST, PUSH1 03 | JUMPDEST, JUMP | STOP
ProgramB == <<91, 96, 3, 91, 86, 0>>

\* the code each contract ran when the transaction executed
ExecutedCode(a) == IF a = "A" THEN ProgramA ELSE ProgramB

\* the code of an account that has delegated to the zero address since
Designator == <<239, 1, 0>> \o [i \in 1..20 |-> 0]

\* a code whose only block jumps to a pc beyond its end: PUSH1 09, JUMP
ProgramStray == <<96, 9, 86>>

\* the answer of get_code for each address when it is fetched
\* (BlockNumber::Latest): B still holds its code, or no longer does, or the
\* request for B fails, or B holds another code by now
ChainOptions ==
    {[a \in Addresses |-> [ok |-> TRUE, code |-> ExecutedCode(a)]],
     [a \in Addresses |-> [ok |-> TRUE, code |-> IF a = "A" THEN ProgramA ELSE <<>>]],
     [a \in Addresses |-> [ok |-> a = "A", code |-> ExecutedCode(a)]],
     [a \in Addresses |-> [ok |-> TRUE, code |-> IF a = "A" THEN ProgramA ELSE Designator]],
     [a \in Addresses |-> [ok |-> TRUE, code |-> IF a = "A" THEN ProgramA ELSE ProgramStray]]}

\* mnemonics of the opcodes the programs use
OpName(b) ==
    CASE b = STOP -> "STOP"
      [] b = SSTORE -> "SSTORE"
      [] b = JUMP -> "JUMP"
      [] b = JUMPI -> "JUMPI"
      [] b = JUMPDEST -> "JUMPDEST"
      [] b = PUSH1 -> "PUSH1"
      [] b = 241 -> "CALL"
      [] b = 250 -> "STATICCALL"
      [] OTHER -> "unknown"

\* the pcs a step can carry: an entry, a block start, a pc inside a block,
\* or none
TracePcs == {0, 3, 4, None}

ExecutedSteps == [address : Addresses, pc : TracePcs]

Executions == UNION {[1..n -> ExecutedSteps] : n \in 0..MaxTraceLen}

\* The trace file of an execution.  The op of a step is the executing
\* contract's opcode at its pc (a step that lost its pc keeps the op of the
\* call it was); the tracer emits the executing address on every step
\* (emits) or on none.
TraceOf(exec, emits) ==
    [i \in DOMAIN exec |->
        LET op == IF exec[i].pc = None THEN "CALL"
                  ELSE OpName(ExecutedCode(exec[i].address)[exec[i].pc + 1])
        IN  [pc |-> exec[i].pc,
             op |-> op,
             address |-> IF emits THEN exec[i].address ELSE NoAddress,
             depth |-> IF exec[i].address = exec[1].address THEN 1 ELSE 2,
             stack |-> IF op \in CallOps
                         THEN <<IF i < Len(exec) THEN exec[i + 1].address
                                ELSE exec[i].address, "gas">>
                         ELSE <<>>]]

\* the bytecodes given to a stand-alone CFGRunner
CodeAlphabet == {STOP, 3, 4, JUMP, JUMPI, JUMPDEST, PUSH1}

\* PUSH1 01, PUSH1 02, ADD
Seed1 == <<96, 1, 96, 2, 1>>
\* PUSH1 03, JUMP, JUMPDEST, STOP
Seed2 == <<96, 3, 86, 91, 0>>
\* PUSH1 06, JUMPI, PUSH1 01, STOP, JUMPDEST, PUSH1 02
Seed3 == <<96, 6, 87, 96, 1, 0, 91, 96, 2>>

\* PUSH1 08, PUSH1 06 | JUMPDEST, JUMP | JUMPDEST, JUMP | JUMPDEST, STOP:
\* two returns through indirect jumps
SeedReturns == <<96, 8, 96, 6, 91, 86, 91, 86, 91, 0>>
\* PUSH1 14, PUSH1 00, PUSH1 08, JUMPI | JUMP | JUMPDEST, PUSH1 00, PUSH1 08,
\* JUMP | JUMPDEST, STOP: a loop whose stack grows, beside an indirect jump
SeedLoop == <<96, 14, 96, 0, 96, 8, 87, 86, 91, 96, 0, 96, 8, 86, 91, 0>>

\* PUSH1 03, JUMPI | JUMPDEST, STOP: the jump target is the fall-through
SeedSameTarget == <<96, 3, 87, 91, 0>>

\* a code that fills the 16-bit pc range: STOP at pc 0, then PUSH32 and one
\* PUSH27 of zero bytes up to pc 65533, ADD at pc 65534 and JUMPI at pc 65535
SeedWide ==
    [i \in 1..PcModulus |->
        IF i = 1 THEN STOP
        ELSE IF i = PcModulus THEN JUMPI
        ELSE IF i = PcModulus - 1 THEN 1
        ELSE IF i = PcModulus - 29 THEN PUSH32 - 5
        ELSE IF i < PcModulus - 29 /\ (i - 2) % 33 = 0 THEN PUSH32
        ELSE 0] \o <<>>

\* PUSH1 04, JUMPI | RETURN | JUMPDEST, REVERT | JUMPDEST, INVALID |
\* JUMPDEST, SELFDESTRUCT | JUMPDEST, 0c (unknown) | JUMPDEST, STOP
SeedEnders == <<96, 4, 87, 243, 91, 253, 91, 254, 91, 255, 91, 12, 91, 0>>

SeedCodes ==
    {Seed1, Seed2, Seed3, SeedReturns, SeedLoop, SeedSameTarget, SeedWide,
     SeedEnders, ProgramA, ProgramB}

Codes == SeedCodes \cup UNION {[1..n -> CodeAlphabet] : n \in 0..MaxCodeLen}

(***************************************************************************)
(* State.                                                                  *)
(***************************************************************************)
VARIABLES
    \* the environment of an analysis
    execution,              \* the steps as executed, each with its contract
    tracer_emits_address,   \* whether the trace file carries the address
    chain,                  \* the code at each address
    \* TransactionAnalyzer
    stage,
    trace_steps,
    contract_addresses,
    bytecode_cache,
    contract_cfgs,
    call_edges,
    global_graph,
    node_mapping,
    dot,
    \* a stand-alone CFGRunner
    bytecode,
    map_to_instructionblock,
    cfg_dag,
    runner,                 \* "idle", "new", "connected" or "panicked"
    log                     \* the calls made on the runner, oldest first: the
                            \* method, cfg_dag before it, and whether a solver
                            \* run reached its fixed point

avars == <<execution, tracer_emits_address, chain, stage, trace_steps,
           contract_addresses, bytecode_cache, contract_cfgs, call_edges,
           global_graph, node_mapping, dot>>

rvars == <<bytecode, map_to_instructionblock, cfg_dag, runner, log>>

vars == <<overflow_checks, avars, rvars>>

NoFunction == [x \in {} |-> x]

AnalyzerIdle ==
    /\ execution = <<>>
    /\ tracer_emits_address = TRUE
    /\ chain = NoFunction
    /\ stage = "idle"
    /\ trace_steps = <<>>
    /\ contract_addresses = {}
    /\ bytecode_cache = NoFunction
    /\ contract_cfgs = NoFunction
    /\ call_edges = <<>>
    /\ global_graph = EmptyGraph
    /\ node_mapping = NoFunction
    /\ dot = EmptyGraph

RunnerIdle ==
    /\ bytecode = <<>>
    /\ map_to_instructionblock = <<>>
    /\ cfg_dag = EmptyDag
    /\ runner = "idle"
    /\ log = <<>>

(***************************************************************************)
(* The analyzer pipeline: new, fetch_bytecodes, generate_contract_cfgs,    *)
(* build_global_transaction_graph, export_global_graph_dot.                *)
(***************************************************************************)
Init ==
    /\ overflow_checks \in BOOLEAN
    /\ execution \in Executions
    /\ tracer_emits_address \in BOOLEAN
    /\ chain \in ChainOptions
    /\ stage = "parsed"
    /\ trace_steps = TraceOf(execution, tracer_emits_address)
    /\ contract_addresses = {}
    /\ bytecode_cache = NoFunction
    /\ contract_cfgs = NoFunction
    /\ call_edges = <<>>
    /\ global_graph = EmptyGraph
    /\ node_mapping = NoFunction
    /\ dot = EmptyGraph
    /\ RunnerIdle

\* TransactionAnalyzer::new
New ==
    /\ stage = "parsed"
    /\ LET extracted == extract_call_edges(trace_steps)
       IN  IF extracted.ok
             THEN /\ stage' = "constructed"
                  /\ contract_addresses' = extract_contract_addresses(trace_steps)
                  /\ call_edges' = extracted.edges
             ELSE /\ stage' = "panicked"
                  /\ UNCHANGED <<contract_addresses, call_edges>>
    /\ UNCHANGED <<overflow_checks, execution, tracer_emits_address, chain, trace_steps, bytecode_cache,
                   contract_cfgs, global_graph, node_mapping, dot, rvars>>

\* TransactionAnalyzer::fetch_bytecodes
FetchBytecodes ==
    /\ stage = "constructed"
    /\ LET fetched == fetch_all_bytecodes(SetToSeq(contract_addresses), chain)
       IN  IF fetched.ok
             THEN /\ bytecode_cache' = fetched.cache
                  /\ stage' = "fetched"
             ELSE /\ bytecode_cache' = bytecode_cache
                  /\ stage' = "failed"
    /\ UNCHANGED <<overflow_checks, execution, tracer_emits_address, chain, trace_steps,
                   contract_addresses, contract_cfgs, call_edges, global_graph,
                   node_mapping, dot, rvars>>

\* A generation that fills the analyzer's map as it goes.
generate_contract_cfgs_in_place(cfgs, made) ==
    [a \in {b \in DOMAIN made : made[b].ok} |-> made[a]]

\* lines 95-103: the map is built aside and assigned after the last contract
generate_contract_cfgs(cfgs, made) ==
    IF \A a \in DOMAIN made : made[a].ok THEN made ELSE cfgs

\* TransactionAnalyzer::generate_contract_cfgs; the first contract whose
\* generation fails ends the call
GenerateContractCfgs ==
    /\ stage = "fetched"
    /\ \E made \in [DOMAIN bytecode_cache ->
                      UNION {generate_single_contract_cfg(trace_steps, a, bytecode_cache[a]) :
                                a \in DOMAIN bytecode_cache}] :
          /\ \A a \in DOMAIN bytecode_cache :
                made[a] \in generate_single_contract_cfg(trace_steps, a, bytecode_cache[a])
          /\ contract_cfgs' = generate_contract_cfgs(contract_cfgs, made)
          /\ IF \A a \in DOMAIN made : made[a].ok
               THEN stage' = "generated"
               ELSE \E a \in DOMAIN made :
                       /\ ~made[a].ok
                       /\ stage' = IF made[a].err THEN "analysis_failed" ELSE "panicked"
    /\ UNCHANGED <<overflow_checks, execution, tracer_emits_address, chain, trace_steps,
                   contract_addresses, bytecode_cache, call_edges, global_graph,
                   node_mapping, dot, rvars>>

\* TransactionAnalyzer::build_global_transaction_graph
BuildGlobalTransactionGraph ==
    /\ stage = "generated"
    /\ LET nodes == global_graph.nodes \o ExecutedNodes(contract_cfgs)
           mapping == NodeMapping(nodes)
       IN  /\ node_mapping' = mapping
           /\ global_graph' =
                [nodes |-> nodes,
                 edges |-> global_graph.edges
                             \o InternalEdges(contract_cfgs, mapping)
                             \o ExternalEdges(call_edges, mapping)]
    /\ stage' = "built"
    /\ UNCHANGED <<overflow_checks, execution, tracer_emits_address, chain, trace_steps,
                   contract_addresses, bytecode_cache, contract_cfgs, call_edges, dot,
                   rvars>>

\* TransactionAnalyzer::export_global_graph_dot
ExportGlobalGraphDot ==
    /\ stage = "built"
    /\ dot' = export_global_graph_dot(global_graph)
    /\ stage' = "exported"
    /\ UNCHANGED <<overflow_checks, execution, tracer_emits_address, chain, trace_steps,
                   contract_addresses, bytecode_cache, contract_cfgs, call_edges,
                   global_graph, node_mapping, rvars>>

Next ==
    \/ New
    \/ FetchBytecodes
    \/ GenerateContractCfgs
    \/ BuildGlobalTransactionGraph
    \/ ExportGlobalGraphDot

Spec == Init /\ [][Next]_vars

(***************************************************************************)
(* A stand-alone CFGRunner, as main.rs drives it: new, then                *)
(* form_basic_connections, then remove_unreachable_instruction_blocks and  *)
(* symbolic_cycle.                                                         *)
(***************************************************************************)
InitCfg ==
    /\ overflow_checks \in BOOLEAN
    /\ AnalyzerIdle
    /\ bytecode \in Codes
    /\ map_to_instructionblock = disassemble(bytecode)
    /\ cfg_dag = CFGRunnerNew(disassemble(bytecode))
    /\ runner = "new"
    /\ log = <<>>

Called(method, complete) ==
    Append(log, [call |-> method, before |-> cfg_dag, complete |-> complete])

FormBasicConnections ==
    /\ runner = "new"
    /\ LET formed == form_basic_connections(map_to_instructionblock, cfg_dag)
       IN  /\ cfg_dag' = formed.dag
           /\ runner' = IF formed.ok THEN "connected" ELSE "panicked"
    /\ log' = Called("form_basic_connections", TRUE)
    /\ UNCHANGED <<overflow_checks, bytecode, map_to_instructionblock, avars>>

RemoveUnreachableInstructionBlocks ==
    /\ runner = "connected"
    /\ Len(log) <= MaxCalls
    /\ cfg_dag' = remove_unreachable_instruction_blocks(map_to_instructionblock, cfg_dag)
    /\ log' = Called("remove_unreachable_instruction_blocks", TRUE)
    /\ UNCHANGED <<overflow_checks, bytecode, map_to_instructionblock, runner, avars>>

SymbolicCycle ==
    /\ runner = "connected"
    /\ Len(log) <= MaxCalls
    /\ \E out \in symbolic_cycle(map_to_instructionblock, cfg_dag,
                                 set_all_valid_jumpdests(bytecode)) :
          /\ cfg_dag' = out.dag
          /\ log' = Called("symbolic_cycle", out.complete)
    /\ UNCHANGED <<overflow_checks, bytecode, map_to_instructionblock, runner, avars>>

NextCfg ==
    \/ FormBasicConnections
    \/ RemoveUnreachableInstructionBlocks
    \/ SymbolicCycle

SpecCfg == InitCfg /\ [][NextCfg]_vars

(***************************************************************************)
(* Properties of the global transaction graph.                             *)
(***************************************************************************)
Built == stage \in {"built", "exported"}

Constructed == stage \notin {"idle", "parsed", "panicked"}

\* the pcs the trace shows for a contract
ObservedPcs(a) == get_executed_pcs(filter_steps_by_address(trace_steps, a))

\* some observed pc lies in the range of the block
BlockObserved(a, n) == \E pc \in ObservedPcs(a) : n[1] <= pc /\ pc <= n[2]

\* the global nodes of the block of contract a that starts at start_pc
NodesFor(a, start_pc) ==
    {k \in DOMAIN global_graph.nodes :
        /\ global_graph.nodes[k].contract_address = a
        /\ global_graph.nodes[k].pc = start_pc}

\* the CFG blocks of contract a whose range contains pc
BlocksContaining(a, pc) ==
    {n \in contract_cfgs[a].cfg_dag.nodes : n[1] <= pc /\ pc <= n[2]}

\* C1: after build_global_transaction_graph, a block of a contract CFG has
\* exactly one global node iff some observed pc lies in its range.
C1_NodeIffBlockObserved ==
    Built =>
        \A a \in DOMAIN contract_cfgs :
            \A n \in contract_cfgs[a].cfg_dag.nodes :
                (Cardinality(NodesFor(a, n[1])) = 1) <=> BlockObserved(a, n)

\* C2: every trace-derived call edge has an External(kind) edge from the node
\* of the caller block whose range contains from_pc to the node of the
\* callee's entry block, whenever both blocks have nodes.
C2_CallEdgeStitched ==
    Built =>
        \A k \in DOMAIN call_edges :
            LET ce == call_edges[k]
            IN  (ce.from_addr \in DOMAIN contract_cfgs) =>
                \A n \in BlocksContaining(ce.from_addr, ce.from_pc) :
                    (NodesFor(ce.from_addr, n[1]) # {} /\ NodesFor(ce.to_addr, 0) # {})
                    => \E g \in Range(global_graph.edges) :
                          /\ g.weight = External(ce.call_type)
                          /\ g.source \in NodesFor(ce.from_addr, n[1])
                          /\ g.target \in NodesFor(ce.to_addr, 0)

\* the call edge the trace aligner is to emit for steps i and i + 1
EdgeWhenAddressDiffers(steps, i) ==
    IF /\ steps[i].op \in CallOps
       /\ steps[i].address # NoAddress
       /\ steps[i + 1].address # NoAddress
       /\ steps[i + 1].address # steps[i].address
       /\ steps[i].pc # None
      THEN <<[from_addr |-> steps[i].address, from_pc |-> steps[i].pc,
              to_addr |-> steps[i + 1].address, call_type |-> steps[i].op]>>
      ELSE <<>>

RECURSIVE EdgesWhenAddressDiffers(_, _)
EdgesWhenAddressDiffers(steps, n) ==
    IF n = 0 THEN <<>>
    ELSE EdgesWhenAddressDiffers(steps, n - 1) \o EdgeWhenAddressDiffers(steps, n)

\* C3: extract_call_edges emits an edge for steps i, i + 1 exactly when step
\* i is a call and step i + 1 runs at another address; none when both run
\* at the same address.
C3_EdgeOnlyWhenAddressDiffers ==
    Constructed =>
        call_edges = EdgesWhenAddressDiffers(trace_steps, Len(trace_steps) - 1)

\* the (address, block) of a global node
BlockOfNode(k) ==
    LET nd == global_graph.nodes[k]
    IN  CHOOSE b \in Range(contract_cfgs[nd.contract_address].blocks) :
            b.start_pc = nd.pc

\* C4: the global graph has an Internal(kind) edge for each CFG edge whose two
\* endpoint blocks are both executed, and every Internal edge joins two
\* blocks that each contain an executed pc.
C4_InternalEdgesOfExecutedBlocks ==
    Built =>
        /\ \A a \in DOMAIN contract_cfgs :
              \A e \in contract_cfgs[a].cfg_dag.edges :
                  (BlockObserved(a, e.from) /\ BlockObserved(a, e.to))
                  => \E g \in Range(global_graph.edges) :
                        /\ g.weight = Internal(DebugEdges(e.kind))
                        /\ g.source \in NodesFor(a, e.from[1])
                        /\ g.target \in NodesFor(a, e.to[1])
        /\ \A g \in Range(global_graph.edges) :
              g.weight.tag = "Internal" =>
                  /\ BlockObserved(global_graph.nodes[g.source].contract_address,
                                   NodeOf(BlockOfNode(g.source)))
                  /\ BlockObserved(global_graph.nodes[g.target].contract_address,
                                   NodeOf(BlockOfNode(g.target)))

\* C5: a global node is flagged contains_sstore iff some instruction of its
\* block has opcode byte 0x55.
C5_ContainsSstore ==
    Built =>
        \A k \in DOMAIN global_graph.nodes :
            global_graph.nodes[k].contains_sstore
                <=> (\E j \in DOMAIN BlockOfNode(k).ops : BlockOfNode(k).ops[j].op = SSTORE)

\* C5 happens: a built graph with a flagged node and an unflagged node of
\* the same contract.
C5_Witness ==
    /\ Built
    /\ \E k, j \in DOMAIN global_graph.nodes :
          /\ global_graph.nodes[k].contract_address = global_graph.nodes[j].contract_address
          /\ global_graph.nodes[k].contains_sstore
          /\ ~global_graph.nodes[j].contains_sstore

\* the style section 4.8 gives an edge of the global graph
StyleOfKind(weight) ==
    IF weight.tag = "External"
      THEN <<"color=\"#7aa2f7\", style=\"bold\", penwidth=2, label=\"",
             weight.label, "\"">>
      ELSE CASE weight.label = DebugEdges(EdgeConditionTrue) ->
                    <<"color=\"#9ece6a\", label=\"True\"">>
             [] weight.label = DebugEdges(EdgeConditionFalse) ->
                    <<"color=\"#f7768e\", label=\"False\"">>
             [] weight.label = DebugEdges(EdgeSymbolicJump) ->
                    <<"color=\"#e0af68\", style=\"dotted\", label=\"Symbolic\"">>
             [] OTHER -> <<"color=\"#414868\"">>

\* C9: export_global_graph_dot renders every Internal edge by its CFG edge
\* kind (True green, False red, Symbolic dotted yellow, Jump neutral) and
\* every External edge bold blue with its call kind.
C9_EdgeStyleByKind ==
    stage = "exported" =>
        /\ Len(dot.edges) = Len(global_graph.edges)
        /\ \A k \in DOMAIN dot.edges :
              dot.edges[k].style = StyleOfKind(global_graph.edges[k].weight)

\* C10: a trace without addresses yields the contract addresses, executed
\* pcs and call edges of the same trace with the address on every step.
C10_AddressFreeTraceAligned ==
    (Constructed /\ ~tracer_emits_address) =>
        LET with_address == TraceOf(execution, TRUE)
        IN  /\ call_edges = extract_call_edges(with_address).edges
            /\ contract_addresses = extract_contract_addresses(with_address)
            /\ \A a \in Addresses :
                  ObservedPcs(a)
                    = get_executed_pcs(filter_steps_by_address(with_address, a))

(***************************************************************************)
(* Properties of the CFGRunner.                                            *)
(***************************************************************************)
LastCall == log[Len(log)]

PrevCall == log[Len(log) - 1]

RECURSIVE ReachableFrom(_, _)
\* the nodes that the edges of dag reach from the nodes S
ReachableFrom(dag, S) ==
    LET more == S \cup {e.to : e \in {f \in dag.edges : f.from \in S}}
    IN  IF more = S THEN S ELSE ReachableFrom(dag, more)

\* the blocks that end in JUMPI and the block each falls through to
FallThroughOfJumpi(blocks) ==
    {<<NodeOf(b), NodeOf(c)>> : b, c \in Range(blocks)}
        \cap {p \in {<<NodeOf(b), NodeOf(c)>> : b, c \in Range(blocks)} :
                /\ LastOp(BlockAt(blocks, p[1])) = JUMPI
                /\ p[2][1] = p[1][2] + 1}

Pruned == Len(log) >= 1 /\ LastCall.call = "remove_unreachable_instruction_blocks"

\* C6: pruning keeps every block reachable from the entry block; the block a
\* reachable JUMPI falls through to is never removed.
C6_ReachableBlocksKept ==
    (runner = "connected" /\ Pruned) =>
        LET reach == ReachableFrom(LastCall.before, EntryNodes(map_to_instructionblock))
        IN  /\ reach \subseteq cfg_dag.nodes
            /\ \A p \in FallThroughOfJumpi(map_to_instructionblock) :
                  p[1] \in reach => p[2] \in cfg_dag.nodes

\* C7: a second remove_unreachable_instruction_blocks on a pruned CFG removes
\* no block and no edge.
C7_PruningIdempotent ==
    (Len(log) >= 2 /\ Pruned /\ PrevCall.call = "remove_unreachable_instruction_blocks")
        => cfg_dag = LastCall.before

SolvedTwice ==
    /\ Len(log) >= 2
    /\ LastCall.call = "symbolic_cycle"
    /\ PrevCall.call = "symbolic_cycle"

Fetched == stage \in {"fetched", "generated", "built", "exported"}

\* C11: a failed fetch of any contract address is fatal: fetch_bytecodes
\* fails and leaves bytecode_cache as it was (empty), with no partial cache;
\* fetch_bytecodes succeeds only when every fetch succeeded.
C11_FetchFailureFatal ==
    /\ stage = "failed" =>
          /\ bytecode_cache = EmptyCache
          /\ \E a \in contract_addresses : ~chain[a].ok
    /\ Fetched => \A a \in contract_addresses : chain[a].ok

\* C11 happens: the fetch for B failed although the fetch for A answers
\* with code.
C11_Witness ==
    /\ stage = "failed"
    /\ contract_addresses = {"A", "B"}
    /\ chain["A"].ok /\ chain["A"].code # <<>>
    /\ ~chain["B"].ok

\* the traced addresses whose fetched bytecode is empty
WithoutCode == {a \in contract_addresses : chain[a].ok /\ chain[a].code = <<>>}

\* C12: a traced address whose fetched bytecode is empty gets no cache entry,
\* no CFG (no block, no edge) and no node or edge in the global graph, and
\* neither fetch nor CFG generation nor the graph build fails because of it.
C12_EmptyBytecodeContributesNothing ==
    \A a \in WithoutCode :
        /\ (\A b \in contract_addresses : chain[b].ok) => stage \notin {"failed", "panicked"}
        /\ a \notin DOMAIN bytecode_cache
        /\ a \notin DOMAIN contract_cfgs
        /\ \A k \in DOMAIN global_graph.nodes :
              global_graph.nodes[k].contract_address # a
        /\ \A k \in DOMAIN global_graph.edges :
              /\ global_graph.nodes[global_graph.edges[k].source].contract_address # a
              /\ global_graph.nodes[global_graph.edges[k].target].contract_address # a

\* C12 happens: the graph of a transaction that ran A and an address
\* without code is built and holds nodes of A.
C12_Witness ==
    /\ stage = "exported"
    /\ WithoutCode = {"B"}
    /\ global_graph.nodes # <<>>

\* whether some block of the caller that contains from_pc has a node
CallerHasNode(ce) ==
    /\ ce.from_addr \in DOMAIN contract_cfgs
    /\ \E n \in BlocksContaining(ce.from_addr, ce.from_pc) :
          NodesFor(ce.from_addr, n[1]) # {}

\* the External edges of the global graph that stitch the call edge ce
ExternalEdgesFor(ce) ==
    {j \in DOMAIN global_graph.edges :
        LET g == global_graph.edges[j]
        IN  /\ g.weight = External(ce.call_type)
            /\ global_graph.nodes[g.source].contract_address = ce.from_addr
            /\ global_graph.nodes[g.source].pc = ce.from_pc
            /\ g.target \in NodesFor(ce.to_addr, 0)}

\* the call edges with an absent endpoint
DroppedCallEdges ==
    {k \in DOMAIN call_edges :
        NodesFor(call_edges[k].to_addr, 0) = {} \/ ~CallerHasNode(call_edges[k])}

\* C13: a call edge with an absent endpoint adds no edge to the built graph,
\* the build succeeds, and the number of dropped edges is kept for the
\* final report.
C13_DroppedEdgesCounted ==
    Built =>
        /\ \A k \in DroppedCallEdges : ExternalEdgesFor(call_edges[k]) = {}
        /\ dropped_edges_counted(call_edges, node_mapping) = Cardinality(DroppedCallEdges)

(***************************************************************************)
(* Properties of form_basic_connections.                                   *)
(***************************************************************************)
\* form_basic_connections was the one call made on a runner with blocks
JustFormed == Len(log) = 1 /\ map_to_instructionblock # <<>>

StartPcs(blocks) == {b.start_pc : b \in Range(blocks)}

\* the blocks that end in JUMP or JUMPI with a pushed constant target
DirectJumpBlocks(blocks) ==
    {b \in Range(blocks) :
        LastOp(b) \in {JUMP, JUMPI} /\ ~b.indirect_jump /\ b.push_used_for_jump # None}

\* the label of the direct edge of a block that ends in JUMP or JUMPI
DirectKind(b) == IF LastOp(b) = JUMP THEN EdgeJump ELSE EdgeConditionTrue

\* C14: form_basic_connections does not fail on a direct jump whose pushed
\* constant is not the start pc of a block, and adds no direct edge for it.
C14_InvalidTargetSkipped ==
    JustFormed =>
        /\ runner = "connected"
        /\ \A b \in DirectJumpBlocks(map_to_instructionblock) :
              b.push_used_for_jump \notin StartPcs(map_to_instructionblock)
              => ~\E e \in cfg_dag.edges :
                     e.from = NodeOf(b) /\ e.kind = DirectKind(b)

Connected == JustFormed /\ runner = "connected"

\* the nodes of the blocks that start at pc
BlocksStartingAt(pc) == StartingAt(map_to_instructionblock, pc)

\* the edges of the CFG from block b with label kind
EdgesFrom(b, kind) == {e \in cfg_dag.edges : e.from = NodeOf(b) /\ e.kind = kind}

\* the largest end_pc of the code
max_pc == last_pc_total(map_to_instructionblock)

\* C15: after form_basic_connections a block that ends in JUMPI has a
\* ConditionFalse edge to the block starting at end_pc + 1 iff that block
\* exists and end_pc + 1 < max_pc, and no other ConditionFalse edge.
C15_JumpiFallThrough ==
    Connected =>
        \A b \in Range(map_to_instructionblock) :
            LastOp(b) = JUMPI =>
                {e.to : e \in EdgesFrom(b, EdgeConditionFalse)}
                    = IF b.end_pc + 1 < max_pc
                        THEN BlocksStartingAt(b.end_pc + 1)
                        ELSE {}

\* C16: after form_basic_connections a block that ends in JUMP (JUMPI) with
\* push_used_for_jump = t has its Jump (ConditionTrue) edge to the block that
\* starts at t, and to no block that merely holds an instruction at t.
C16_DirectEdgeToBlockStart ==
    Connected =>
        \A b \in DirectJumpBlocks(map_to_instructionblock) :
            {e.to : e \in EdgesFrom(b, DirectKind(b))}
                = BlocksStartingAt(b.push_used_for_jump)

\* C17: after form_basic_connections a block that ends in JUMPI with a
\* pushed target t that starts a block, and with a fall-through block, has
\* both its ConditionFalse edge and its ConditionTrue edge, also when the
\* two lead to the same block.
C17_BothJumpiEdgesKept ==
    Connected =>
        \A b \in DirectJumpBlocks(map_to_instructionblock) :
            (/\ LastOp(b) = JUMPI
             /\ b.end_pc + 1 < max_pc
             /\ b.push_used_for_jump \in StartPcs(map_to_instructionblock))
            => /\ \E e \in EdgesFrom(b, EdgeConditionFalse) : e.to[1] = b.end_pc + 1
               /\ \E e \in EdgesFrom(b, EdgeConditionTrue) : e.to[1] = b.push_used_for_jump

\* C18: after form_basic_connections a block whose last op is a known opcode
\* and no block-ender has a Jump edge to the block starting at end_pc + 1
\* when there is one (the final block of the code included), and no Jump
\* edge when there is none.
C18_FallThroughToNextBlock ==
    Connected =>
        \A b \in Range(map_to_instructionblock) :
            (LastOp(b) \notin BLOCK_ENDERS_U8 /\ IsKnownOpcode(LastOp(b)))
            => {e.to : e \in EdgesFrom(b, EdgeJump)} = BlocksStartingAt(b.end_pc + 1)

(***************************************************************************)
(* Properties of remove_unreachable_instruction_blocks and of the order    *)
(* of the stages.                                                          *)
(***************************************************************************)
\* the blocks of dag without incoming edge that neither start at pc 0 nor
\* begin with JUMPDEST
Unreachable(dag) ==
    {n \in dag.nodes :
        /\ ~\E e \in dag.edges : e.to = n
        /\ n[1] # 0
        /\ BlockAt(map_to_instructionblock, n).ops[1].op # JUMPDEST}

\* C19: remove_unreachable_instruction_blocks removes exactly the blocks
\* that, in the graph before the call, have no incoming edge, do not start
\* at pc 0 and do not begin with JUMPDEST; the other blocks and the edges
\* between them stay.
C19_PruningRemovesExactly ==
    (runner = "connected" /\ Pruned) =>
        LET before == LastCall.before
            gone == Unreachable(before)
        IN  /\ cfg_dag.nodes = before.nodes \ gone
            /\ cfg_dag.edges = {e \in before.edges : e.from \notin gone /\ e.to \notin gone}

\* C19 happens: a pruning removed a block and with it the only incoming
\* edge of a block that stays.
C19_Witness ==
    /\ runner = "connected"
    /\ Pruned
    /\ \E n \in cfg_dag.nodes :
          /\ n \in Unreachable(cfg_dag)
          /\ n \notin Unreachable(LastCall.before)
    /\ cfg_dag.nodes # LastCall.before.nodes

Generated == stage \in {"generated", "built", "exported"}

\* the positions of the calls of method among the stages of a generation
Positions(stages, method) == {i \in DOMAIN stages : stages[i].call = method}

\* every call of method first comes before every call of method second,
\* and both are made
RunsBefore(stages, first, second) ==
    /\ Positions(stages, first) # {}
    /\ Positions(stages, second) # {}
    /\ \A i \in Positions(stages, first) :
          \A j \in Positions(stages, second) : i < j

\* the blocks the pruning of a generation removed
PrunedBlocks(cfg) ==
    UNION {cfg.stages[i].before.nodes \
             remove_unreachable_instruction_blocks(cfg.blocks, cfg.stages[i].before).nodes :
               i \in Positions(cfg.stages, "remove_unreachable_instruction_blocks")}

\* C20 as stated: in every generated contract CFG the basic edges were
\* built first, then the indirect jumps resolved, then the blocks pruned.
C20_SolveThenPrune ==
    Generated =>
        \A a \in DOMAIN contract_cfgs :
            /\ RunsBefore(contract_cfgs[a].stages, "form_basic_connections",
                          "symbolic_cycle")
            /\ RunsBefore(contract_cfgs[a].stages, "symbolic_cycle",
                          "remove_unreachable_instruction_blocks")

\* C20 amended: in every generated contract CFG the basic edges were built
\* first, then the blocks pruned, then the indirect jumps resolved: the
\* pruning judged the blocks on a graph without solver-resolved edges.
C20_PruneThenSolve ==
    Generated =>
        \A a \in DOMAIN contract_cfgs :
            /\ RunsBefore(contract_cfgs[a].stages, "form_basic_connections",
                          "remove_unreachable_instruction_blocks")
            /\ RunsBefore(contract_cfgs[a].stages,
                          "remove_unreachable_instruction_blocks", "symbolic_cycle")
            /\ \A i \in Positions(contract_cfgs[a].stages,
                                   "remove_unreachable_instruction_blocks") :
                  \A e \in contract_cfgs[a].stages[i].before.edges :
                      e.kind # EdgeSymbolicJump

\* C20 happens: a generation pruned a block and then resolved an indirect
\* jump.
C20_Witness ==
    /\ Generated
    /\ \E a \in DOMAIN contract_cfgs :
          /\ PrunedBlocks(contract_cfgs[a]) # {}
          /\ \E e \in contract_cfgs[a].cfg_dag.edges : e.kind = EdgeSymbolicJump

(***************************************************************************)
(* The 16-bit pc arithmetic.                                               *)
(***************************************************************************)
\* the blocks whose last op lets execution run on into the next block
FallsThrough(b) == LastOp(b) \notin BLOCK_ENDERS_U8 /\ IsKnownOpcode(LastOp(b))

\* C21: no pc is produced by wraparound modulo 2^16: after
\* form_basic_connections every ConditionFalse edge and every fall-through
\* Jump edge of a block leads to the block that starts at end_pc + 1, never to
\* the block at (end_pc + 1) mod 2^16, and the valid jumpdests are the pcs of
\* the jump table untruncated.
C21_NoPcWraparound ==
    JustFormed =>
        /\ \A b \in Range(map_to_instructionblock) :
              /\ \A e \in EdgesFrom(b, EdgeConditionFalse) : e.to[1] = b.end_pc + 1
              /\ FallsThrough(b) =>
                    \A e \in EdgesFrom(b, EdgeJump) : e.to[1] = b.end_pc + 1
        /\ set_all_valid_jumpdests(bytecode) = JumpTable(bytecode)

(***************************************************************************)
(* Properties of the executed pcs and of the call edges of a trace.        *)
(***************************************************************************)
\* the steps of the trace observed at address a
StepsAt(a) == {i \in DOMAIN trace_steps : trace_steps[i].address = a}

NewPanicked == stage = "panicked" /\ DOMAIN bytecode_cache = {}

\* C23: constructing an analyzer succeeds for every trace length, and for a
\* trace of zero steps or of one step it yields no call edge.
C23_ShortTraceConstructs ==
    /\ ~NewPanicked
    /\ (stage # "parsed" /\ Len(trace_steps) <= 1) => call_edges = <<>>

(***************************************************************************)
(* Properties of generate_contract_cfgs and of the node mapping.           *)
(***************************************************************************)
\* generate_contract_cfgs was called
Attempted == stage \in {"analysis_failed", "generated", "built", "exported"}
                \/ (stage = "panicked" /\ ~NewPanicked)

\* generate_contract_cfgs did not succeed
GenerationFailed == stage = "analysis_failed" \/ (stage = "panicked" /\ ~NewPanicked)

\* the cached contracts whose bytecode analysis fails
Rejected == {a \in DOMAIN bytecode_cache : ~legacy_jump_table(bytecode_cache[a]).some}

\* C25: when the generation of a single contract fails,
\* generate_contract_cfgs fails too and contract_cfgs is as it was before the
\* call (empty): the CFGs of the contracts generated so far are not visible.
C25_FailedGenerationKeepsCfgs ==
    /\ (Attempted /\ Rejected # {}) => GenerationFailed
    /\ GenerationFailed => contract_cfgs = NoFunction

\* C25 (witness): the bytecode analysis of B failed and generate_contract_cfgs
\* returned its error, while the CFG of A can be generated
C25_Witness ==
    /\ stage = "analysis_failed"
    /\ Rejected = {"B"}
    /\ "A" \in DOMAIN bytecode_cache

\* the key of node k of the global graph
KeyOf(k) == <<global_graph.nodes[k].contract_address, global_graph.nodes[k].pc>>

\* C26: after build_global_transaction_graph on a freshly generated analyzer
\* node_mapping is a bijection between its keys (address, start_pc) and the
\* nodes of the global graph, the fields of each node are its key, and the
\* address of each node is the observed address of some trace step.
C26_NodeMappingBijection ==
    Built =>
        /\ \A k \in DOMAIN global_graph.nodes :
              /\ KeyOf(k) \in DOMAIN node_mapping
              /\ node_mapping[KeyOf(k)] = k
              /\ StepsAt(global_graph.nodes[k].contract_address) # {}
        /\ \A key \in DOMAIN node_mapping :
              /\ node_mapping[key] \in DOMAIN global_graph.nodes
              /\ KeyOf(node_mapping[key]) = key

\* C26 (witness): a built graph with two nodes of one contract and a node of
\* another
C26_Witness ==
    /\ Built
    /\ \E k, j, i \in DOMAIN global_graph.nodes :
          /\ k # j
          /\ KeyOf(k)[1] = KeyOf(j)[1]
          /\ KeyOf(i)[1] # KeyOf(k)[1]

(***************************************************************************)
(* The edges out of a block after form_basic_connections.                  *)
(***************************************************************************)
\* the edges of the CFG that leave block b
OutEdges(b) == {e \in cfg_dag.edges : e.from = NodeOf(b)}

\* STOP, RETURN, REVERT, INVALID, SELFDESTRUCT or an unknown byte
Halts(op) == op \in BLOCK_ENDERS_U8 \ {JUMP, JUMPI} \/ ~IsKnownOpcode(op)

\* C24: after form_basic_connections ConditionTrue and ConditionFalse edges
\* leave only blocks that end in JUMPI, a block that ends in STOP, RETURN,
\* REVERT, INVALID, SELFDESTRUCT or an unknown byte has no outgoing edge, a
\* block that ends in JUMP has at most one, and every block at most two.
C24_OutEdgesByLastOp ==
    JustFormed =>
        \A b \in Range(map_to_instructionblock) :
            /\ (\E e \in OutEdges(b) : e.kind \in {EdgeConditionTrue, EdgeConditionFalse})
                  => LastOp(b) = JUMPI
            /\ Halts(LastOp(b)) => OutEdges(b) = {}
            /\ LastOp(b) = JUMP => Cardinality(OutEdges(b)) <= 1
            /\ Cardinality(OutEdges(b)) <= 2

\* C24 (witness): a connected CFG with a JUMPI block of two edges, and with
\* a block that ends in SELFDESTRUCT and one that ends in an unknown byte,
\* each followed by further blocks
C24_Witness ==
    /\ Connected
    /\ \E b \in Range(map_to_instructionblock) :
          LastOp(b) = JUMPI /\ Cardinality(OutEdges(b)) = 2
    /\ \E b \in Range(map_to_instructionblock) :
          LastOp(b) = 255 /\ b.end_pc + 1 < max_pc
    /\ \E b \in Range(map_to_instructionblock) :
          ~IsKnownOpcode(LastOp(b)) /\ b.end_pc + 1 < max_pc

====
